---- MODULE Spec2Model ----
(***************************************************************************)
(* Model of the ACP zomes of holoclaw-acp.                                 *)
(*   zomes/integrity/acp_integrity/src/lib.rs     entry types, validation  *)
(*   zomes/coordinator/acp_coordinator/src/lib.rs zome functions           *)
(* Strings are sequences of one-character strings over an ASCII alphabet,  *)
(* so that String::len (bytes) is Len.  The record store (hdk create_entry,*)
(* create_link, get, get_links, Path::ensure) is modelled by the sequences *)
(* records and links.                                                      *)
(***************************************************************************)
EXTENDS Integers, Sequences, FiniteSets, TLC

VARIABLES records, links, ret, cand, calls

vars == <<records, links, ret, cand, calls>>

----------------------------------------------------------------------------
(* String literals of the source *)

MSG_AGENT_WALLET ==
  <<"w","a","l","l","e","t","_","a","d","d","r","e","s","s"," ","m","u","s","t"," ","b","e"," ","a"," ","v","a","l","i","d"," ","E","t","h","e","r","e","u","m"," ","a","d","d","r","e","s","s"," ","(","0","x",".",".","."," ","4","2"," ","c","h","a","r","s",")">>

MSG_AGENT_NAME ==
  <<"n","a","m","e"," ","c","a","n","n","o","t"," ","b","e"," ","e","m","p","t","y">>

MSG_JOB_ESCROW ==
  <<"e","s","c","r","o","w","_","h","a","s","h"," ","m","u","s","t"," ","b","e"," ","a"," ","v","a","l","i","d"," ","t","r","a","n","s","a","c","t","i","o","n"," ","h","a","s","h"," ","(","0","x",".",".","."," ","6","6"," ","c","h","a","r","s",")">>

MSG_JOB_WALLET ==
  <<"a","g","e","n","t","_","w","a","l","l","e","t","_","a","d","d","r","e","s","s"," ","m","u","s","t"," ","b","e"," ","a"," ","v","a","l","i","d"," ","E","t","h","e","r","e","u","m"," ","a","d","d","r","e","s","s">>

MSG_JOB_PHASES ==
  <<"p","h","a","s","e","s"," ","c","a","n","n","o","t"," ","b","e"," ","e","m","p","t","y">>

MSG_JOB_ID ==
  <<"j","o","b","_","i","d"," ","c","a","n","n","o","t"," ","b","e"," ","e","m","p","t","y">>

MSG_JOB_PHASE_PREFIX ==
  <<"c","u","r","r","e","n","t","_","p","h","a","s","e"," ","m","u","s","t"," ","b","e"," ","o","n","e"," ","o","f",":"," ">>

MSG_BALANCE ==
  <<"I","n","v","a","l","i","d"," ","E","t","h","e","r","e","u","m"," ","a","d","d","r","e","s","s"," ","f","o","r","m","a","t">>

REQUESTED == <<"r","e","q","u","e","s","t","e","d">>

NEGOTIATION == <<"n","e","g","o","t","i","a","t","i","o","n">>

TRANSACTION == <<"t","r","a","n","s","a","c","t","i","o","n">>

COMPLETED == <<"c","o","m","p","l","e","t","e","d">>

REJECTED == <<"r","e","j","e","c","t","e","d">>

PREFIX_0x == <<"0","x">>

JOB_PREFIX == <<"j","o","b","_">>

COMMA_SPACE == <<",", " ">>

----------------------------------------------------------------------------
(* Rust str operations used by the source *)

Upper ==
  <<"A","B","C","D","E","F","G","H","I","J","K","L","M","N","O","P","Q","R","S","T","U","V","W","X","Y","Z">>

Lower ==
  <<"a","b","c","d","e","f","g","h","i","j","k","l","m","n","o","p","q","r","s","t","u","v","w","x","y","z">>

Whitespace == {" ", "\t", "\n", "\r"}

Rep(c, n) == [i \in 1..n |-> c]

(* str::starts_with *)
starts_with(s, p) == Len(s) >= Len(p) /\ SubSeq(s, 1, Len(p)) = p

(* str::to_lowercase, on the ASCII alphabet *)
LowerOf == [c \in {Upper[k] : k \in 1..Len(Upper)} |->
              Lower[CHOOSE k \in 1..Len(Upper) : Upper[k] = c]]

to_lowercase(s) ==
  [i \in 1..Len(s) |-> IF s[i] \in DOMAIN LowerOf THEN LowerOf[s[i]] ELSE s[i]]

(* str::contains with a string pattern *)
contains(h, n) ==
  \E i \in 0..(Len(h) - Len(n)) : SubSeq(h, i + 1, i + Len(n)) = n

(* str::trim: strips leading and trailing whitespace *)
trim(s) ==
  LET keep == {i \in 1..Len(s) : s[i] \notin Whitespace}
  IN  IF keep = {} THEN <<>>
      ELSE LET lo == CHOOSE i \in keep : \A j \in keep : i <= j
               hi == CHOOSE i \in keep : \A j \in keep : j <= i
           IN  SubSeq(s, lo, hi)

is_empty(s) == Len(s) = 0

(* [&str]::join *)
RECURSIVE join(_, _)
join(ss, sep) ==
  IF Len(ss) = 0 THEN <<>>
  ELSE IF Len(ss) = 1 THEN ss[1]
  ELSE ss[1] \o sep \o join(Tail(ss), sep)

(* Vec::contains *)
vec_contains(v, x) == \E i \in 1..Len(v) : v[i] = x

----------------------------------------------------------------------------
(* Entry types.  An entry is its serialized field map; decoding into a     *)
(* struct succeeds when every field of the struct is present.              *)

AcpAgentFields ==
  {"wallet_address", "session_key_id", "name", "description", "registered_at"}

AcpJobFields ==
  {"job_id", "phases", "escrow_hash", "agent_wallet_address", "job_offering_name",
   "service_requirements", "created_at", "current_phase", "deliverable"}

None == [some |-> FALSE]

Some(v) == [some |-> TRUE, val |-> v]

Project(entry, fields) == [f \in fields |-> entry[f]]

(* into_app_data::<AcpAgent>() / AcpAgent::try_from(entry) *)
DecodeAcpAgent(entry) ==
  IF AcpAgentFields \subseteq DOMAIN entry
  THEN Some(Project(entry, AcpAgentFields)) ELSE None

(* into_app_data::<AcpJob>() / AcpJob::try_from(entry) *)
DecodeAcpJob(entry) ==
  IF AcpJobFields \subseteq DOMAIN entry
  THEN Some(Project(entry, AcpJobFields)) ELSE None

----------------------------------------------------------------------------
(* Validation (integrity zome) *)

Valid == [tag |-> "Valid", reason |-> <<>>]

Invalid(reason) == [tag |-> "Invalid", reason |-> reason]

WALLET_LEN == 42

HASH_LEN == 66

(* variant: the name rule is left out *)
validate_acp_agent_no_name(agent) ==
  IF ~starts_with(agent.wallet_address, PREFIX_0x) \/ Len(agent.wallet_address) # WALLET_LEN
  THEN Invalid(MSG_AGENT_WALLET)
  ELSE Valid

(* variant: the two wallet conditions joined with && instead of || *)
validate_acp_agent_and(agent) ==
  IF ~starts_with(agent.wallet_address, PREFIX_0x) /\ Len(agent.wallet_address) # WALLET_LEN
  THEN Invalid(MSG_AGENT_WALLET)
  ELSE IF is_empty(trim(agent.name))
  THEN Invalid(MSG_AGENT_NAME)
  ELSE Valid

validate_acp_agent(agent) ==
  IF ~starts_with(agent.wallet_address, PREFIX_0x) \/ Len(agent.wallet_address) # WALLET_LEN
  THEN Invalid(MSG_AGENT_WALLET)
  ELSE IF is_empty(trim(agent.name))
  THEN Invalid(MSG_AGENT_NAME)
  ELSE Valid

valid_phases == <<REQUESTED, NEGOTIATION, TRANSACTION, COMPLETED, REJECTED>>

(* variant: the hash length counted without its prefix *)
validate_acp_job_len64(job) ==
  IF ~starts_with(job.escrow_hash, PREFIX_0x) \/ Len(job.escrow_hash) # HASH_LEN - 2
  THEN Invalid(MSG_JOB_ESCROW)
  ELSE IF ~starts_with(job.agent_wallet_address, PREFIX_0x)
          \/ Len(job.agent_wallet_address) # WALLET_LEN
  THEN Invalid(MSG_JOB_WALLET)
  ELSE IF is_empty(job.phases)
  THEN Invalid(MSG_JOB_PHASES)
  ELSE IF is_empty(trim(job.job_id))
  THEN Invalid(MSG_JOB_ID)
  ELSE IF ~vec_contains(valid_phases, job.current_phase)
  THEN Invalid(MSG_JOB_PHASE_PREFIX \o join(valid_phases, COMMA_SPACE))
  ELSE Valid

(* variant: the phases rule is tested before the wallet rule *)
validate_acp_job_phases_first(job) ==
  IF ~starts_with(job.escrow_hash, PREFIX_0x) \/ Len(job.escrow_hash) # HASH_LEN
  THEN Invalid(MSG_JOB_ESCROW)
  ELSE IF is_empty(job.phases)
  THEN Invalid(MSG_JOB_PHASES)
  ELSE IF ~starts_with(job.agent_wallet_address, PREFIX_0x)
          \/ Len(job.agent_wallet_address) # WALLET_LEN
  THEN Invalid(MSG_JOB_WALLET)
  ELSE IF is_empty(trim(job.job_id))
  THEN Invalid(MSG_JOB_ID)
  ELSE IF ~vec_contains(valid_phases, job.current_phase)
  THEN Invalid(MSG_JOB_PHASE_PREFIX \o join(valid_phases, COMMA_SPACE))
  ELSE Valid

(* variant: the reason of the phase rule lists the first four phases only *)
validate_acp_job_short_list(job) ==
  IF ~starts_with(job.escrow_hash, PREFIX_0x) \/ Len(job.escrow_hash) # HASH_LEN
  THEN Invalid(MSG_JOB_ESCROW)
  ELSE IF ~starts_with(job.agent_wallet_address, PREFIX_0x)
          \/ Len(job.agent_wallet_address) # WALLET_LEN
  THEN Invalid(MSG_JOB_WALLET)
  ELSE IF is_empty(job.phases)
  THEN Invalid(MSG_JOB_PHASES)
  ELSE IF is_empty(trim(job.job_id))
  THEN Invalid(MSG_JOB_ID)
  ELSE IF ~vec_contains(valid_phases, job.current_phase)
  THEN Invalid(MSG_JOB_PHASE_PREFIX \o join(SubSeq(valid_phases, 1, 4), COMMA_SPACE))
  ELSE Valid

validate_acp_job(job) ==
  IF ~starts_with(job.escrow_hash, PREFIX_0x) \/ Len(job.escrow_hash) # HASH_LEN
  THEN Invalid(MSG_JOB_ESCROW)
  ELSE IF ~starts_with(job.agent_wallet_address, PREFIX_0x)
          \/ Len(job.agent_wallet_address) # WALLET_LEN
  THEN Invalid(MSG_JOB_WALLET)
  ELSE IF is_empty(job.phases)
  THEN Invalid(MSG_JOB_PHASES)
  ELSE IF is_empty(trim(job.job_id))
  THEN Invalid(MSG_JOB_ID)
  ELSE IF ~vec_contains(valid_phases, job.current_phase)
  THEN Invalid(MSG_JOB_PHASE_PREFIX \o join(valid_phases, COMMA_SPACE))
  ELSE Valid

(* validate(op) for Op::StoreRecord carrying an entry *)
validate(entry) ==
  IF DecodeAcpAgent(entry).some THEN validate_acp_agent(DecodeAcpAgent(entry).val)
  ELSE IF DecodeAcpJob(entry).some THEN validate_acp_job(DecodeAcpJob(entry).val)
  ELSE Valid

----------------------------------------------------------------------------
(* Bounds of the model *)

MaxRecords == 2

Delta == 2

(* the identities that call the zome functions *)
AgentIds == {1, 2}

----------------------------------------------------------------------------
(* Addresses: action hashes, agent public keys, path entry hashes *)

ActionHash(n) == [action |-> n]

AgentPubKey(a) == [agent |-> a]

PathHash(components) == [path |-> components]

ALL_AGENTS == <<"a","l","l","_","a","g","e","n","t","s">>

(* Path::from("all_agents").typed(LinkTypes::AllAgents) *)
all_agents_path == [components |-> <<ALL_AGENTS>>, link_type |-> "AllAgents"]

path_entry_hash(path) == PathHash(path.components)

root_hash == PathHash(<<>>)

----------------------------------------------------------------------------
(* Record store *)

Ok(v) == [ok |-> TRUE, val |-> v]

Err(e) == [ok |-> FALSE, err |-> e]

(* variant: an author's new entry replaces the author's earlier record in place *)
create_entry_overwrite(recs, author, entry) ==
  IF validate(entry).tag # "Valid"
  THEN [res |-> Err(validate(entry).reason), records |-> recs]
  ELSE IF \E n \in 1..Len(recs) : recs[n].author = author
  THEN LET n == CHOOSE k \in 1..Len(recs) : recs[k].author = author
       IN  [res |-> Ok(ActionHash(n)),
            records |-> [recs EXCEPT ![n] = [author |-> author, entry |-> entry]]]
  ELSE [res |-> Ok(ActionHash(Len(recs) + 1)),
        records |-> Append(recs, [author |-> author, entry |-> entry])]

(* create_entry: the entry is validated, then a record is appended to the
   author's chain; its action hash is the address *)
create_entry(recs, author, entry) ==
  IF validate(entry).tag = "Valid"
  THEN [res |-> Ok(ActionHash(Len(recs) + 1)),
        records |-> Append(recs, [author |-> author, entry |-> entry])]
  ELSE [res |-> Err(validate(entry).reason), records |-> recs]

(* create_link *)
create_link(lnks, base, target, link_type, tag) ==
  Append(lnks, [base |-> base, target |-> target, link_type |-> link_type, tag |-> tag])

(* variant: the links of every base are returned *)
get_links_any_base(lnks, base, link_type) ==
  SelectSeq([i \in 1..Len(lnks) |-> i], LAMBDA i : lnks[i].link_type = link_type)

(* get_links(base, link_type): indices of the matching links, in store order *)
get_links(lnks, base, link_type) ==
  SelectSeq([i \in 1..Len(lnks) |-> i],
            LAMBDA i : lnks[i].base = base /\ lnks[i].link_type = link_type)

(* get(hash): the record at an action hash *)
get(recs, hash) ==
  IF "action" \in DOMAIN hash /\ hash.action \in 1..Len(recs)
  THEN Some(recs[hash.action]) ELSE None

(* TypedPath::exists for a one-component path *)
path_exists(lnks, path) ==
  \E i \in 1..Len(lnks) :
     /\ lnks[i].base = root_hash
     /\ lnks[i].link_type = path.link_type
     /\ lnks[i].tag = path.components[Len(path.components)]
     /\ lnks[i].target = path_entry_hash(path)

(* variant: the anchor link is created without asking whether it exists *)
path_ensure_always(lnks, path) ==
  create_link(lnks, root_hash, path_entry_hash(path), path.link_type,
              path.components[Len(path.components)])

(* TypedPath::ensure for a one-component path *)
path_ensure(lnks, path) ==
  IF ~path_exists(lnks, path)
  THEN create_link(lnks, root_hash, path_entry_hash(path), path.link_type,
                   path.components[Len(path.components)])
  ELSE lnks

----------------------------------------------------------------------------
(* serde_json::to_string of a HashMap<String, String>; the iteration order
   of the map is the sequence order of its keys *)

json_escape(s) ==
  LET esc(c) == IF c = "\"" THEN <<"\\", "\"">>
                ELSE IF c = "\\" THEN <<"\\", "\\">>
                ELSE <<c>>
      F[i \in 0..Len(s)] == IF i = 0 THEN <<>> ELSE F[i - 1] \o esc(s[i])
  IN  F[Len(s)]

json_string(s) == <<"\"">> \o json_escape(s) \o <<"\"">>

json_to_string(map, order) ==
  LET pair(k) == json_string(k) \o <<":">> \o json_string(map[k])
  IN  <<"{">> \o join([i \in 1..Len(order) |-> pair(order[i])], <<",">>) \o <<"}">>

(* the orders in which a map with the given keys can be iterated *)
KeyOrders(keys) ==
  {o \in [1..Cardinality(keys) -> keys] : \A i, j \in DOMAIN o : o[i] = o[j] => i = j}

(* format!("{}", n) of a non-negative integer *)
Digits == <<"0","1","2","3","4","5","6","7","8","9">>

RECURSIVE decimal(_)
decimal(n) ==
  IF n < 10 THEN <<Digits[n + 1]>>
  ELSE decimal(n \div 10) \o <<Digits[(n % 10) + 1]>>

----------------------------------------------------------------------------
(* Coordinator zome: the values the functions compute *)

(* variant: the job is constructed in phase negotiation *)
new_job_negotiation(input, now, order) ==
  [job_id |-> JOB_PREFIX \o decimal(now),
   phases |-> <<REQUESTED, NEGOTIATION, TRANSACTION>>,
   escrow_hash |-> input.escrow_hash,
   agent_wallet_address |-> input.agent_wallet_address,
   job_offering_name |-> input.job_offering_name,
   service_requirements |-> json_to_string(input.service_requirements, order),
   created_at |-> now,
   current_phase |-> NEGOTIATION,
   deliverable |-> None]

(* variant: escrow_hash and agent_wallet_address filled from each other's input *)
new_job_swapped(input, now, order) ==
  [job_id |-> JOB_PREFIX \o decimal(now),
   phases |-> <<REQUESTED, NEGOTIATION, TRANSACTION>>,
   escrow_hash |-> input.agent_wallet_address,
   agent_wallet_address |-> input.escrow_hash,
   job_offering_name |-> input.job_offering_name,
   service_requirements |-> json_to_string(input.service_requirements, order),
   created_at |-> now,
   current_phase |-> REQUESTED,
   deliverable |-> None]

(* the AcpJob built by execute_acp_job from its input and sys_time *)
new_job(input, now, order) ==
  [job_id |-> JOB_PREFIX \o decimal(now),
   phases |-> <<REQUESTED, NEGOTIATION, TRANSACTION>>,
   escrow_hash |-> input.escrow_hash,
   agent_wallet_address |-> input.agent_wallet_address,
   job_offering_name |-> input.job_offering_name,
   service_requirements |-> json_to_string(input.service_requirements, order),
   created_at |-> now,
   current_phase |-> REQUESTED,
   deliverable |-> None]

(* variant: the query is compared without being lower-cased *)
browse_one_raw_query(recs, target, query) ==
  LET record == get(recs, target)
      agent == DecodeAcpAgent(record.val.entry)
      matches_query ==
        \/ contains(to_lowercase(agent.val.name), query)
        \/ contains(to_lowercase(agent.val.description), query)
  IN  IF record.some /\ agent.some /\ (is_empty(query) \/ matches_query)
      THEN <<[wallet_address |-> agent.val.wallet_address,
              session_key_id |-> agent.val.session_key_id,
              name |-> agent.val.name,
              description |-> agent.val.description,
              registered_at |-> agent.val.registered_at,
              agent_hash |-> target]>>
      ELSE <<>>

(* the loop body of browse_agents for one link: the summaries it pushes *)
browse_one(recs, target, query) ==
  LET record == get(recs, target)
      agent == DecodeAcpAgent(record.val.entry)
      query_lower == to_lowercase(query)
      matches_query ==
        \/ contains(to_lowercase(agent.val.name), query_lower)
        \/ contains(to_lowercase(agent.val.description), query_lower)
  IN  IF record.some /\ agent.some /\ (is_empty(query) \/ matches_query)
      THEN <<[wallet_address |-> agent.val.wallet_address,
              session_key_id |-> agent.val.session_key_id,
              name |-> agent.val.name,
              description |-> agent.val.description,
              registered_at |-> agent.val.registered_at,
              agent_hash |-> target]>>
      ELSE <<>>

(* variant: the loop ends at the first link whose target is not in the store *)
RECURSIVE browse_scan_abort(_, _, _)
browse_scan_abort(recs, targets, query) ==
  IF targets = <<>> THEN <<>>
  ELSE IF ~get(recs, Head(targets)).some THEN <<>>
  ELSE browse_one(recs, Head(targets), query)
         \o browse_scan_abort(recs, Tail(targets), query)

(* the loop of browse_agents over the enumerated links *)
RECURSIVE browse_scan(_, _, _)
browse_scan(recs, targets, query) ==
  IF targets = <<>> THEN <<>>
  ELSE browse_one(recs, Head(targets), query) \o browse_scan(recs, Tail(targets), query)

(* the loop body of get_my_jobs for one link *)
jobs_one(recs, target) ==
  LET record == get(recs, target)
      job == DecodeAcpJob(record.val.entry)
  IN  IF record.some /\ job.some THEN <<job.val>> ELSE <<>>

(* variant: the loop stops after the first link *)
jobs_scan_first(recs, targets) ==
  IF targets = <<>> THEN <<>> ELSE jobs_one(recs, Head(targets))

RECURSIVE jobs_scan(_, _)
jobs_scan(recs, targets) ==
  IF targets = <<>> THEN <<>>
  ELSE jobs_one(recs, Head(targets)) \o jobs_scan(recs, Tail(targets))

(* variant: an address that resolves to no record is reported as an error *)
get_job_not_found(recs, job_hash) ==
  LET record == get(recs, job_hash)
      job == DecodeAcpJob(record.val.entry)
  IN  IF ~record.some THEN Err(<<"n","o","t"," ","f","o","u","n","d">>)
      ELSE IF job.some THEN Ok(Some(job.val)) ELSE Ok(None)

(* get_job *)
get_job(recs, job_hash) ==
  LET record == get(recs, job_hash)
      job == DecodeAcpJob(record.val.entry)
  IN  IF record.some /\ job.some THEN Ok(Some(job.val)) ELSE Ok(None)

(* variant: the address length counted without its prefix *)
get_wallet_balance_len40(address) ==
  IF ~starts_with(address, PREFIX_0x) \/ Len(address) # WALLET_LEN - 2
  THEN Err(MSG_BALANCE)
  ELSE Ok([address |-> address, balance_wei |-> <<"0">>, balance_eth |-> <<"0", ".", "0">>])

(* get_wallet_balance *)
get_wallet_balance(address) ==
  IF ~starts_with(address, PREFIX_0x) \/ Len(address) # WALLET_LEN
  THEN Err(MSG_BALANCE)
  ELSE Ok([address |-> address, balance_wei |-> <<"0">>, balance_eth |-> <<"0", ".", "0">>])

(* the orders in which get_links may enumerate n links *)
Enumerations(n) ==
  {o \in [1..n -> 1..n] : \A i, j \in 1..n : o[i] = o[j] => i = j}

Targets(lnks, idxs, o) == [i \in 1..Len(idxs) |-> lnks[idxs[o[i]]].target]

----------------------------------------------------------------------------
(* Inputs of the zome calls *)

GoodWallet == PREFIX_0x \o Rep("a", WALLET_LEN - 2)

GoodHash == PREFIX_0x \o Rep("b", HASH_LEN - 2)

HELPER_BOT == <<"H","e","l","p","e","r"," ","B","o","t">>

ProfileHelper ==
  [wallet_address |-> GoodWallet, session_key_id |-> 7, name |-> HELPER_BOT,
   description |-> <<"r","u","n","s"," ","j","o","b","s">>, registered_at |-> 1]

ProfileZed ==
  [wallet_address |-> PREFIX_0x \o Rep("c", WALLET_LEN - 2), session_key_id |-> 8,
   name |-> <<"Z","e","d">>, description |-> <<"a"," ","H","E","L","P","E","R"," ","o","f"," ","s","o","r","t","s">>, registered_at |-> 2]

ProfileShortWallet ==
  [wallet_address |-> <<"0","x","1","2","3">>, session_key_id |-> 9, name |-> HELPER_BOT,
   description |-> <<>>, registered_at |-> 3]

ProfileBlankName ==
  [wallet_address |-> GoodWallet, session_key_id |-> 9, name |-> <<" ", "\t">>,
   description |-> <<"r","u","n","s"," ","j","o","b","s">>, registered_at |-> 3]

ProfileInputs == {ProfileHelper, ProfileZed, ProfileShortWallet, ProfileBlankName}

Queries ==
  {<<>>, <<"h","e","l","p","e","r">>, <<"H","E","L","P","E","R">>, <<"H","e","L","p","E","r">>, <<"z","z","z">>, <<"B","o","t">>, <<"S","O","R","T","S">>}

Requirements ==
  (<<"l","a","n","g">> :> <<"r","u","s","t">>) @@ (<<"n","o","t","e">> :> <<"s","a","y"," ","\"","h","i","\"","\\","n">>)

NoRequirements == [k \in {} |-> <<>>]

JobAudit ==
  [agent_wallet_address |-> GoodWallet, job_offering_name |-> <<"a","u","d","i","t">>,
   service_requirements |-> Requirements, escrow_hash |-> GoodHash]

JobShortHash ==
  [agent_wallet_address |-> GoodWallet, job_offering_name |-> <<"a","u","d","i","t">>,
   service_requirements |-> NoRequirements, escrow_hash |-> PREFIX_0x \o Rep("b", HASH_LEN - 3)]

JobBadWallet ==
  [agent_wallet_address |-> Rep("a", WALLET_LEN), job_offering_name |-> <<"a","u","d","i","t">>,
   service_requirements |-> NoRequirements, escrow_hash |-> GoodHash]

JobInputs == {JobAudit, JobShortHash, JobBadWallet}

(* the values sys_time returns *)
Times == {1, 12}

BalanceAddresses == {GoodWallet, <<"0","x","1","2","3">>}

----------------------------------------------------------------------------
(* Zome calls *)

NoCand == [none |-> TRUE]

(* the zome calls in flight: none outside the concurrent specification *)
Procs == {1, 2}

NoCalls == [p \in Procs |-> [pc |-> "idle"]]

Init ==
  /\ records = <<>>
  /\ links = <<>>
  /\ ret = [op |-> "init"]
  /\ cand = NoCand
  /\ calls = NoCalls

(* variant: the discovery link is based at the root instead of the anchor *)
register_agent_root_link(caller, agent) ==
  LET created == create_entry(records, caller, agent)
      agent_hash == created.res.val
      l1 == create_link(links, AgentPubKey(caller), agent_hash, "AgentToProfile", <<>>)
      l2 == path_ensure(l1, all_agents_path)
      l3 == create_link(l2, root_hash, agent_hash, "AllAgents", <<>>)
  IN  /\ Len(records) < MaxRecords
      /\ ret' = [op |-> "register_agent", caller |-> caller, input |-> agent,
                 res |-> created.res]
      /\ IF created.res.ok
         THEN records' = created.records /\ links' = l3
         ELSE UNCHANGED <<records, links>>
      /\ UNCHANGED <<cand, calls>>

(* variant: the identity link is created before the result of create_entry is looked at *)
register_agent_link_first(caller, agent) ==
  LET created == create_entry(records, caller, agent)
      agent_hash == ActionHash(Len(records) + 1)
      l1 == create_link(links, AgentPubKey(caller), agent_hash, "AgentToProfile", <<>>)
      l2 == path_ensure(l1, all_agents_path)
      l3 == create_link(l2, path_entry_hash(all_agents_path), agent_hash, "AllAgents", <<>>)
  IN  /\ Len(records) < MaxRecords
      /\ ret' = [op |-> "register_agent", caller |-> caller, input |-> agent,
                 res |-> created.res]
      /\ IF created.res.ok
         THEN records' = created.records /\ links' = l3
         ELSE records' = records /\ links' = l1
      /\ UNCHANGED <<cand, calls>>

register_agent(caller, agent) ==
  LET created == create_entry(records, caller, agent)
      agent_hash == created.res.val
      l1 == create_link(links, AgentPubKey(caller), agent_hash, "AgentToProfile", <<>>)
      l2 == path_ensure(l1, all_agents_path)
      l3 == create_link(l2, path_entry_hash(all_agents_path), agent_hash, "AllAgents", <<>>)
  IN  /\ Len(records) < MaxRecords
      /\ ret' = [op |-> "register_agent", caller |-> caller, input |-> agent,
                 res |-> created.res]
      /\ IF created.res.ok
         THEN records' = created.records /\ links' = l3
         ELSE UNCHANGED <<records, links>>
      /\ UNCHANGED <<cand, calls>>

RegisterAgent == \E caller \in AgentIds, agent \in ProfileInputs : register_agent(caller, agent)

execute_acp_job(caller, input, now, order) ==
  LET job == new_job(input, now, order)
      created == create_entry(records, caller, job)
      job_hash == created.res.val
  IN  /\ Len(records) < MaxRecords
      /\ ret' = [op |-> "execute_acp_job", caller |-> caller, input |-> input,
                 res |-> created.res]
      /\ IF created.res.ok
         THEN /\ records' = created.records
              /\ links' = create_link(links, AgentPubKey(caller), job_hash, "AgentToJobs", <<>>)
         ELSE UNCHANGED <<records, links>>
      /\ UNCHANGED <<cand, calls>>

ExecuteAcpJob ==
  \E caller \in AgentIds, input \in JobInputs, now \in Times :
    \E order \in KeyOrders(DOMAIN input.service_requirements) :
      execute_acp_job(caller, input, now, order)

browse_agents(query, o) ==
  LET idxs == get_links(links, path_entry_hash(all_agents_path), "AllAgents")
  IN  /\ ret' = [op |-> "browse_agents", input |-> query,
                 res |-> Ok(browse_scan(records, Targets(links, idxs, o), query))]
      /\ UNCHANGED <<records, links, cand, calls>>

BrowseAgents ==
  \E query \in Queries :
    \E o \in Enumerations(Len(get_links(links, path_entry_hash(all_agents_path), "AllAgents"))) :
      browse_agents(query, o)

get_my_jobs(caller, o) ==
  LET idxs == get_links(links, AgentPubKey(caller), "AgentToJobs")
  IN  /\ ret' = [op |-> "get_my_jobs", caller |-> caller,
                 res |-> Ok(jobs_scan(records, Targets(links, idxs, o)))]
      /\ UNCHANGED <<records, links, cand, calls>>

GetMyJobs ==
  \E caller \in AgentIds :
    \E o \in Enumerations(Len(get_links(links, AgentPubKey(caller), "AgentToJobs"))) :
      get_my_jobs(caller, o)

GetJob ==
  \E n \in 1..(MaxRecords + 1) :
    /\ ret' = [op |-> "get_job", input |-> ActionHash(n), res |-> get_job(records, ActionHash(n))]
    /\ UNCHANGED <<records, links, cand, calls>>

GetWalletBalance ==
  \E address \in BalanceAddresses :
    /\ ret' = [op |-> "get_wallet_balance", input |-> address, res |-> get_wallet_balance(address)]
    /\ UNCHANGED <<records, links, cand, calls>>

Next ==
  \/ RegisterAgent
  \/ ExecuteAcpJob
  \/ BrowseAgents
  \/ GetMyJobs
  \/ GetJob
  \/ GetWalletBalance

Spec == Init /\ [][Next]_vars

----------------------------------------------------------------------------
(* Validation alone: the store hands a candidate entry to validate.        *)

Prefixes == {PREFIX_0x, <<"0","X">>, <<"x","0">>, <<"0">>, <<>>}

(* strings of total length within Delta of n, over every prefix *)
Around(n) ==
  {p \o Rep("a", k - Len(p)) : p \in Prefixes, k \in (n - Delta)..(n + Delta)}

WalletCands == Around(WALLET_LEN) \cup {<<"0","x","1","2","3">>, <<>>}

HashCands == Around(HASH_LEN) \cup {GoodWallet, <<>>}

NameCands == {HELPER_BOT, <<>>, <<" ">>, <<" ", "\t", "\n">>, <<" ", "a", " ">>}

UNKNOWN == <<"u","n","k","n","o","w","n">>

PhaseCands ==
  {REQUESTED, NEGOTIATION, TRANSACTION, COMPLETED, REJECTED, UNKNOWN, <<"R","e","q","u","e","s","t","e","d">>, <<>>}

AgentCands ==
  [wallet_address : WalletCands, session_key_id : {7}, name : NameCands,
   description : {<<>>}, registered_at : {1}]

JobCands ==
  [job_id : {JOB_PREFIX \o <<"1">>, <<>>, <<" ", " ">>},
   phases : {<<>>, <<REQUESTED, NEGOTIATION, TRANSACTION>>},
   escrow_hash : HashCands,
   agent_wallet_address : {GoodWallet, <<"0","x","1","2","3">>, Rep("a", WALLET_LEN)},
   job_offering_name : {<<"a","u","d","i","t">>},
   service_requirements : {<<"{", "}">>},
   created_at : {1},
   current_phase : PhaseCands,
   deliverable : {None, Some(<<"d","o","n","e">>)}]

(* an entry that decodes neither as AcpAgent nor as AcpJob *)
OtherEntry == [note |-> <<"x">>]

Candidates == AgentCands \cup JobCands \cup {OtherEntry}

InitValidate ==
  /\ records = <<>>
  /\ links = <<>>
  /\ ret = [op |-> "init"]
  /\ cand \in Candidates
  /\ calls = NoCalls

ValidateEntry ==
  /\ cand # NoCand
  /\ ret.op = "init"
  /\ ret' = [op |-> "validate", input |-> cand, res |-> validate(cand)]
  /\ UNCHANGED <<records, links, cand, calls>>

NextValidate == ValidateEntry

SpecValidate == InitValidate /\ [][NextValidate]_vars

----------------------------------------------------------------------------
(* What the specification says of a string, stated without the source's
   helpers *)

WellFormed(s, n) == Len(s) = n /\ s[1] = "0" /\ s[2] = "x"

Blank(s) == \A i \in 1..Len(s) : s[i] \in Whitespace

IsProfile(e) == DOMAIN e = AcpAgentFields

IsJob(e) == DOMAIN e = AcpJobFields

AllowedPhases == {REQUESTED, NEGOTIATION, TRANSACTION, COMPLETED, REJECTED}

Validated == ret.op = "validate"

----------------------------------------------------------------------------
(* C7: an AgentProfile with a non-blank name is Valid iff its wallet_address
   starts with "0x" and has total length 42; "0x123" is rejected and "0x"
   followed by 40 'a' is accepted; a profile with a blank name is Invalid
   even with a well-formed wallet_address. *)
C7_WalletRule ==
  (Validated /\ IsProfile(cand)) =>
     /\ ~Blank(cand.name) =>
          (ret.res = Valid <=> WellFormed(cand.wallet_address, 42))
     /\ Blank(cand.name) => ret.res.tag = "Invalid"
     /\ cand.wallet_address = <<"0","x","1","2","3">> => ret.res.tag = "Invalid"
     /\ ret.res.tag \in {"Valid", "Invalid"}

C7_Witness ==
  /\ Validated /\ IsProfile(cand)
  /\ cand.wallet_address = <<"0","x">> \o Rep("a", 40)
  /\ cand.name = HELPER_BOT
  /\ ret.res = Valid

(* C8: a Job whose other fields satisfy their rules is Valid iff its
   escrow_hash starts with "0x" and has total length 66. *)
OtherJobRulesHold(j) ==
  /\ WellFormed(j.agent_wallet_address, 42)
  /\ Len(j.phases) > 0
  /\ ~Blank(j.job_id)
  /\ j.current_phase \in AllowedPhases

C8_HashRule ==
  (Validated /\ IsJob(cand) /\ OtherJobRulesHold(cand)) =>
     (ret.res = Valid <=> WellFormed(cand.escrow_hash, 66))

C8_Witness ==
  /\ Validated /\ IsJob(cand) /\ OtherJobRulesHold(cand)
  /\ Len(cand.escrow_hash) = 66
  /\ ret.res = Valid

(* C9: a Job whose current_phase is outside the allowed set, all earlier
   rules being satisfied, is Invalid with a reason that names the five
   allowed phases. *)
EarlierJobRulesHold(j) ==
  /\ WellFormed(j.escrow_hash, 66)
  /\ WellFormed(j.agent_wallet_address, 42)
  /\ Len(j.phases) > 0
  /\ ~Blank(j.job_id)

C9_UnknownPhase ==
  (Validated /\ IsJob(cand) /\ EarlierJobRulesHold(cand)
     /\ cand.current_phase \notin AllowedPhases) =>
     /\ ret.res.tag = "Invalid"
     /\ \A p \in AllowedPhases : contains(ret.res.reason, p)

C9_Witness ==
  /\ Validated /\ IsJob(cand) /\ EarlierJobRulesHold(cand)
  /\ cand.current_phase = UNKNOWN
  /\ ret.res.tag = "Invalid"

----------------------------------------------------------------------------
(* Views of the store used by the properties *)

AgentRecords == {n \in 1..Len(records) : IsProfile(records[n].entry)}

JobRecordsOf(a) ==
  {n \in 1..Len(records) : IsJob(records[n].entry) /\ records[n].author = a}

Resolves(hash) == "action" \in DOMAIN hash /\ hash.action \in 1..Len(records)

(* case-insensitive substring, letter by letter *)
SameLetter(c, d) ==
  c = d \/ \E k \in 1..Len(Upper) : {c, d} = {Upper[k], Lower[k]}

CISubstring(q, s) ==
  \E off \in 0..(Len(s) - Len(q)) : \A i \in 1..Len(q) : SameLetter(q[i], s[off + i])

Summaries == ret.res.val

(* C1: a successful register_agent returns the address of a record holding
   the profile, and browse_agents with the empty query lists every
   registered profile exactly once, with the profile's fields and that
   address as agent_hash. *)
C1_RegisterThenBrowse ==
  /\ (ret.op = "register_agent" /\ ret.res.ok) =>
       /\ Resolves(ret.res.val)
       /\ records[ret.res.val.action] = [author |-> ret.caller, entry |-> ret.input]
  /\ (ret.op = "browse_agents" /\ ret.input = <<>>) =>
       /\ ret.res.ok
       /\ \A n \in AgentRecords :
            Cardinality({i \in 1..Len(Summaries) : Summaries[i].agent_hash = ActionHash(n)}) = 1
       /\ \A i \in 1..Len(Summaries) :
            /\ Resolves(Summaries[i].agent_hash)
            /\ [f \in AcpAgentFields |-> Summaries[i][f]]
                 = records[Summaries[i].agent_hash.action].entry

C1_Witness ==
  /\ ret.op = "browse_agents" /\ ret.input = <<>>
  /\ Cardinality(AgentRecords) = 1
  /\ Len(Summaries) = 1
  /\ Summaries[1].name = HELPER_BOT

(* C2: execute_acp_job with a well-formed escrow_hash and agent_wallet_address
   succeeds, and get_job at the returned address yields the stored Job, whose
   agent_wallet_address, job_offering_name and escrow_hash are the input's and
   whose service_requirements is a serialization of the input's map. *)
C2_JobRoundTrip ==
  (ret.op = "execute_acp_job"
     /\ WellFormed(ret.input.escrow_hash, 66)
     /\ WellFormed(ret.input.agent_wallet_address, 42)) =>
    /\ ret.res.ok
    /\ Resolves(ret.res.val)
    /\ get_job(records, ret.res.val).ok
    /\ get_job(records, ret.res.val).val.some
    /\ LET j == get_job(records, ret.res.val).val.val
       IN  /\ j = records[ret.res.val.action].entry
           /\ j.agent_wallet_address = ret.input.agent_wallet_address
           /\ j.job_offering_name = ret.input.job_offering_name
           /\ j.escrow_hash = ret.input.escrow_hash
           /\ j.service_requirements \in
                {json_to_string(ret.input.service_requirements, o) :
                   o \in KeyOrders(DOMAIN ret.input.service_requirements)}

C2_Witness ==
  /\ ret.op = "execute_acp_job" /\ ret.res.ok
  /\ ret.input = JobAudit
  /\ get_job(records, ret.res.val).val.some
  /\ get_job(records, ret.res.val).val.val.escrow_hash = GoodHash

(* C3: a register_agent or execute_acp_job call fails exactly when its entry
   is rejected, a failing call leaves records and links unchanged, and every
   link to a record is created with its record already in the store. *)
C3_Step ==
  /\ ret'.op = "register_agent" =>
       (ret'.res.ok <=> (WellFormed(ret'.input.wallet_address, 42) /\ ~Blank(ret'.input.name)))
  /\ ret'.op = "execute_acp_job" =>
       (ret'.res.ok <=> (WellFormed(ret'.input.escrow_hash, 66)
                           /\ WellFormed(ret'.input.agent_wallet_address, 42)))
  /\ (ret'.op \in {"register_agent", "execute_acp_job"} /\ ~ret'.res.ok) =>
       /\ records' = records /\ links' = links
       /\ Len(ret'.res.err) > 0
  /\ \A i \in 1..Len(links') :
       "action" \in DOMAIN links'[i].target => links'[i].target.action \in 1..Len(records')

C3_NoPartialState == [][C3_Step]_vars

C3_Witness ==
  /\ ret.op \in {"register_agent", "execute_acp_job"}
  /\ ~ret.res.ok
  /\ Len(records) > 0 /\ Len(links) > 0

(* C4: get_my_jobs returns every job the calling identity has created, as
   many times as the identity created it (two jobs created at the same
   timestamp from the same input are equal and are both returned). *)
C4_MyJobsContainsAll ==
  ret.op = "get_my_jobs" =>
    /\ ret.res.ok
    /\ \A n \in JobRecordsOf(ret.caller) :
         Cardinality({i \in 1..Len(ret.res.val) : ret.res.val[i] = records[n].entry})
           >= Cardinality({m \in JobRecordsOf(ret.caller) : records[m].entry = records[n].entry})

C4_Witness ==
  /\ ret.op = "get_my_jobs"
  /\ Cardinality(JobRecordsOf(ret.caller)) = 2
  /\ Len(ret.res.val) = 2
  /\ ret.res.val[1].created_at = ret.res.val[2].created_at

(* C5: get_job never returns an error; it returns a Job exactly when the
   address resolves to a Job record, and that Job is the record's entry. *)
C5_GetJobAbsent ==
  ret.op = "get_job" =>
    /\ ret.res.ok
    /\ ret.res.val.some <=> (Resolves(ret.input) /\ IsJob(records[ret.input.action].entry))
    /\ ret.res.val.some => ret.res.val.val = records[ret.input.action].entry

C5_Witness ==
  /\ ret.op = "get_job"
  /\ Resolves(ret.input) /\ IsProfile(records[ret.input.action].entry)
  /\ ret.res = Ok(None)

(* C6: browse_agents(q) lists a registered profile iff q is empty or q is a
   case-insensitive substring of the profile's name or description. *)
C6_BrowseFilter ==
  ret.op = "browse_agents" =>
    \A n \in AgentRecords :
      (\E i \in 1..Len(Summaries) : Summaries[i].agent_hash = ActionHash(n))
        <=> \/ ret.input = <<>>
            \/ CISubstring(ret.input, records[n].entry.name)
            \/ CISubstring(ret.input, records[n].entry.description)

C6_Witness ==
  /\ ret.op = "browse_agents"
  /\ ret.input = <<"H","e","L","p","E","r">>
  /\ Cardinality(AgentRecords) = 2
  /\ \E i \in 1..Len(Summaries) : Summaries[i].name = HELPER_BOT

(* C10: the store holds exactly one all_agents anchor once an agent is
   registered (none before), and ensuring an anchor that exists changes
   nothing. *)
AnchorLinks ==
  {i \in 1..Len(links) : links[i].base = PathHash(<<>>)
                           /\ links[i].target = PathHash(<<ALL_AGENTS>>)}

C10_AnchorIdempotent ==
  /\ Cardinality(AnchorLinks) = (IF AgentRecords = {} THEN 0 ELSE 1)
  /\ AnchorLinks # {} => path_ensure(links, all_agents_path) = links

C10_Witness ==
  /\ Cardinality(AgentRecords) = 2
  /\ \E n, m \in AgentRecords : records[n].author # records[m].author
  /\ Cardinality(AnchorLinks) = 1

----------------------------------------------------------------------------
(* C12: a Job is immutable: once get_job at an address returns a Job, every
   later step leaves get_job at that address returning the same Job. *)
C12_Step ==
  \A n \in 1..Len(records) :
    get_job(records, ActionHash(n)).val.some =>
      get_job(records', ActionHash(n)) = get_job(records, ActionHash(n))

C12_JobImmutable == [][C12_Step]_vars

C12_Witness ==
  /\ Len(records) = 2
  /\ IsJob(records[1].entry)
  /\ records[2].author = records[1].author
  /\ ret.op \in {"register_agent", "execute_acp_job"} /\ ret.res.ok

(* C13: every Job that validation accepts has a deliverable only if its
   current_phase is "completed". *)
C13_DeliverableOnlyCompleted ==
  (Validated /\ IsJob(cand) /\ ret.res = Valid /\ cand.deliverable.some) =>
     cand.current_phase = COMPLETED

(* C14: any two distinct Job records in the store have different job_id. *)
C14_JobIdUnique ==
  \A n, m \in 1..Len(records) :
    (n # m /\ IsJob(records[n].entry) /\ IsJob(records[m].entry)) =>
       records[n].entry.job_id # records[m].entry.job_id

ZeroBalance(address) ==
  [address |-> address, balance_wei |-> <<"0">>, balance_eth |-> <<"0", ".", "0">>]

(* C15 as stated: get_wallet_balance returns a zero balance for every address
   string. *)
C15_ZeroForEveryAddress ==
  ret.op = "get_wallet_balance" =>
    (ret.res.ok /\ ret.res.val = ZeroBalance(ret.input))

(* C15 amended: get_wallet_balance returns a zero balance for an address that
   starts with "0x" and has length 42, returns an error for any other
   address, and leaves records and links unchanged in both cases. *)
C15_Step ==
  ret'.op = "get_wallet_balance" =>
    /\ records' = records /\ links' = links
    /\ WellFormed(ret'.input, 42) =>
         (ret'.res.ok /\ ret'.res.val = ZeroBalance(ret'.input))
    /\ ~WellFormed(ret'.input, 42) =>
         (~ret'.res.ok /\ ret'.res.err = MSG_BALANCE)

C15_BalancePlaceholder == [][C15_Step]_vars

C15_Witness ==
  /\ ret.op = "get_wallet_balance"
  /\ Len(records) > 0
  /\ ret.res.ok
  /\ ret.res.val.balance_wei = <<"0">>

(* C16: validate_acp_job reports the reason of the first violated rule in the
   order escrow_hash, agent_wallet_address, phases, job_id, current_phase,
   and a Job that violates no rule is Valid. *)
JobRuleViolated(j) ==
  <<~WellFormed(j.escrow_hash, 66),
    ~WellFormed(j.agent_wallet_address, 42),
    Len(j.phases) = 0,
    Blank(j.job_id),
    j.current_phase \notin AllowedPhases>>

JobRuleField ==
  <<<<"e","s","c","r","o","w","_","h","a","s","h">>,
    <<"a","g","e","n","t","_","w","a","l","l","e","t","_","a","d","d","r","e","s","s">>,
    <<"p","h","a","s","e","s">>,
    <<"j","o","b","_","i","d">>,
    <<"c","u","r","r","e","n","t","_","p","h","a","s","e">>>>

C16_FirstFailingRule ==
  (Validated /\ IsJob(cand)) =>
     LET v == JobRuleViolated(cand)
         bad == {i \in 1..5 : v[i]}
     IN  IF bad = {} THEN ret.res = Valid
         ELSE /\ ret.res.tag = "Invalid"
              /\ LET first == CHOOSE i \in bad : \A k \in bad : i <= k
                 IN  /\ starts_with(ret.res.reason, JobRuleField[first])
                     /\ \A k \in bad \ {first} :
                          ~starts_with(ret.res.reason, JobRuleField[k])

C16_Witness ==
  /\ Validated /\ IsJob(cand)
  /\ JobRuleViolated(cand) = <<FALSE, TRUE, TRUE, TRUE, TRUE>>
  /\ ret.res = Invalid(MSG_JOB_WALLET)

----------------------------------------------------------------------------
(* the number a string of decimal digits denotes *)
RECURSIVE DecimalValue(_)
DecimalValue(ds) ==
  IF Len(ds) = 0 THEN 0
  ELSE 10 * DecimalValue(SubSeq(ds, 1, Len(ds) - 1))
         + (CHOOSE d \in 0..9 : Digits[d + 1] = ds[Len(ds)])

(* C18: every Job in the store is as execute_acp_job constructs it:
   current_phase "requested", phases [requested, negotiation, transaction],
   no deliverable, job_id "job_" followed by the decimal creation timestamp,
   created_at that timestamp. *)
C18_JobsRequested ==
  \A n \in 1..Len(records) :
    IsJob(records[n].entry) =>
      LET j == records[n].entry
      IN  /\ j.current_phase = <<"r","e","q","u","e","s","t","e","d">>
          /\ Len(j.phases) = 3
          /\ j.phases[1] = <<"r","e","q","u","e","s","t","e","d">>
          /\ j.phases[2] = <<"n","e","g","o","t","i","a","t","i","o","n">>
          /\ j.phases[3] = <<"t","r","a","n","s","a","c","t","i","o","n">>
          /\ ~j.deliverable.some
          /\ j.created_at \in Times
          /\ Len(j.job_id) > 4
          /\ SubSeq(j.job_id, 1, 4) = <<"j","o","b","_">>
          /\ \A i \in 5..Len(j.job_id) : \E d \in 0..9 : Digits[d + 1] = j.job_id[i]
          /\ DecimalValue(SubSeq(j.job_id, 5, Len(j.job_id))) = j.created_at

C18_Witness ==
  /\ ret.op = "execute_acp_job" /\ ret.res.ok
  /\ Len(records) = 2
  /\ IsJob(records[1].entry) /\ IsJob(records[2].entry)
  /\ records[1].entry.created_at = 12 /\ records[2].entry.created_at = 1

(* C19: get_my_jobs called by X returns exactly the Jobs of the records X
   created, one per record, and a register_agent call changes no identity's
   job history. *)
JobsOf(recs, a) == {n \in 1..Len(recs) : IsJob(recs[n].entry) /\ recs[n].author = a}

History(recs, lnks, a) ==
  LET idxs == get_links(lnks, AgentPubKey(a), "AgentToJobs")
  IN  jobs_scan(recs, [i \in 1..Len(idxs) |-> lnks[idxs[i]].target])

C19_Step ==
  /\ ret'.op = "get_my_jobs" =>
       /\ ret'.res.ok
       /\ Len(ret'.res.val) = Cardinality(JobsOf(records', ret'.caller))
       /\ \A n \in JobsOf(records', ret'.caller) :
            Cardinality({i \in 1..Len(ret'.res.val) : ret'.res.val[i] = records'[n].entry})
              = Cardinality({m \in JobsOf(records', ret'.caller) :
                               records'[m].entry = records'[n].entry})
  /\ ret'.op = "register_agent" =>
       \A a \in AgentIds : History(records', links', a) = History(records, links, a)

C19_PerIdentityHistory == [][C19_Step]_vars

C19_Witness ==
  /\ ret.op = "get_my_jobs"
  /\ Cardinality(JobsOf(records, ret.caller)) = 1
  /\ \E b \in AgentIds \ {ret.caller} : Cardinality(JobsOf(records, b)) = 1
  /\ Len(ret.res.val) = 1

(* C20: every summary browse_agents returns has a wallet_address that starts
   with "0x" with length 42 and a name that is not blank, and every record
   of the store that decodes as an AgentProfile satisfies both. *)
C20_ValidationGatesDirectory ==
  /\ ret.op = "browse_agents" =>
       \A i \in 1..Len(Summaries) :
         /\ WellFormed(Summaries[i].wallet_address, 42)
         /\ ~Blank(Summaries[i].name)
  /\ \A n \in AgentRecords :
       /\ WellFormed(records[n].entry.wallet_address, 42)
       /\ ~Blank(records[n].entry.name)

C20_Witness ==
  /\ ret.op = "browse_agents"
  /\ Len(Summaries) = 2
  /\ Summaries[1].name # Summaries[2].name

----------------------------------------------------------------------------
(* Scans over links written by peers.  Link creation is always valid
   (validate, Op::RegisterCreateLink), so the anchor and the identities can
   carry links whose target is not in the store or is an entry of the other
   kind.  The store starts as one registration and one job of identity 1
   leave it. *)

MaxLinks == 6

(* the store after register_agent(caller, agent) succeeds *)
registered(st, caller, agent) ==
  LET created == create_entry(st.records, caller, agent)
      agent_hash == created.res.val
      l1 == create_link(st.links, AgentPubKey(caller), agent_hash, "AgentToProfile", <<>>)
      l2 == path_ensure(l1, all_agents_path)
      l3 == create_link(l2, path_entry_hash(all_agents_path), agent_hash, "AllAgents", <<>>)
  IN  [records |-> created.records, links |-> l3]

(* the store after execute_acp_job(caller, input) succeeds *)
job_created(st, caller, input, now, order) ==
  LET created == create_entry(st.records, caller, new_job(input, now, order))
  IN  [records |-> created.records,
       links |-> create_link(st.links, AgentPubKey(caller), created.res.val,
                             "AgentToJobs", <<>>)]

InitScan ==
  \E order \in KeyOrders(DOMAIN JobAudit.service_requirements) :
    LET s0 == [records |-> <<>>, links |-> <<>>]
        s1 == registered(s0, 1, ProfileHelper)
        s2 == job_created(s1, 1, JobAudit, 1, order)
    IN  /\ records = s2.records
        /\ links = s2.links
        /\ ret = [op |-> "init"]
        /\ cand = NoCand
        /\ calls = NoCalls

PeerLinkBases ==
  {[base |-> path_entry_hash(all_agents_path), link_type |-> "AllAgents"]}
    \cup {[base |-> AgentPubKey(a), link_type |-> "AgentToJobs"] : a \in AgentIds}

PeerCreateLink ==
  \E b \in PeerLinkBases, n \in 1..(Len(records) + 1) :
    /\ Len(links) < MaxLinks
    /\ links' = create_link(links, b.base, ActionHash(n), b.link_type, <<>>)
    /\ ret' = [op |-> "create_link"]
    /\ UNCHANGED <<records, cand, calls>>

NextScan ==
  \/ PeerCreateLink
  \/ BrowseAgents
  \/ GetMyJobs

SpecScan == InitScan /\ [][NextScan]_vars

(* C17: a scan skips every link whose target is missing or of the other
   kind and still succeeds: for some enumeration of the links, the result of
   browse_agents is the summaries of the matching profiles among the targets,
   one per remaining link, in that order; likewise get_my_jobs and the Jobs. *)
IsMatchingProfile(q, hash) ==
  /\ Resolves(hash)
  /\ IsProfile(records[hash.action].entry)
  /\ \/ q = <<>>
     \/ CISubstring(q, records[hash.action].entry.name)
     \/ CISubstring(q, records[hash.action].entry.description)

SummaryAt(hash) ==
  [f \in AcpAgentFields \cup {"agent_hash"} |->
     IF f = "agent_hash" THEN hash ELSE records[hash.action].entry[f]]

ExpectedSummaries(targets, q) ==
  LET kept == SelectSeq(targets, LAMBDA h : IsMatchingProfile(q, h))
  IN  [i \in 1..Len(kept) |-> SummaryAt(kept[i])]

ExpectedJobs(targets) ==
  LET kept == SelectSeq(targets, LAMBDA h : Resolves(h) /\ IsJob(records[h.action].entry))
  IN  [i \in 1..Len(kept) |-> records[kept[i].action].entry]

LinkTargets(base, link_type) ==
  LET idxs == SelectSeq([i \in 1..Len(links) |-> i],
                        LAMBDA i : links[i].base = base /\ links[i].link_type = link_type)
  IN  [i \in 1..Len(idxs) |-> links[idxs[i]].target]

Reordered(seq) ==
  {[i \in 1..Len(seq) |-> seq[o[i]]] : o \in Enumerations(Len(seq))}

C17_ScanSkips ==
  /\ ret.op = "browse_agents" =>
       /\ ret.res.ok
       /\ \E ts \in Reordered(LinkTargets(PathHash(<<ALL_AGENTS>>), "AllAgents")) :
            ret.res.val = ExpectedSummaries(ts, ret.input)
  /\ ret.op = "get_my_jobs" =>
       /\ ret.res.ok
       /\ \E ts \in Reordered(LinkTargets(AgentPubKey(ret.caller), "AgentToJobs")) :
            ret.res.val = ExpectedJobs(ts)

C17_Witness ==
  /\ ret.op = "browse_agents" /\ ret.input = <<>>
  /\ LET ts == LinkTargets(PathHash(<<ALL_AGENTS>>), "AllAgents")
     IN  /\ Len(ts) = 3
         /\ ~Resolves(ts[2])
         /\ Resolves(ts[3]) /\ IsJob(records[ts[3].action].entry)
  /\ Len(ret.res.val) = 1

----------------------------------------------------------------------------
(* Concurrent register_agent calls: every host call of one invocation is a
   step of its own, and the steps of the invocations in Procs interleave on
   the shared store.  calls[p] is the position of invocation p together with
   its locals (caller, agent, agent_hash). *)

ConcProfiles == {ProfileHelper, ProfileZed, ProfileBlankName}

Step(p) == [op |-> "register_agent_step", proc |-> p]

(* let agent_hash = create_entry(EntryTypes::AcpAgent(agent.clone()))?; *)
reg_create_entry(p, caller, agent) ==
  LET created == create_entry(records, caller, agent)
  IN  /\ calls[p].pc = "idle"
      /\ IF created.res.ok
         THEN /\ records' = created.records
              /\ calls' = [calls EXCEPT ![p] =
                             [pc |-> "link_profile", caller |-> caller, agent |-> agent,
                              agent_hash |-> created.res.val]]
              /\ ret' = Step(p)
         ELSE /\ records' = records
              /\ calls' = [calls EXCEPT ![p] =
                             [pc |-> "failed", caller |-> caller, agent |-> agent]]
              /\ ret' = [op |-> "register_agent", caller |-> caller, input |-> agent,
                         res |-> created.res]
      /\ UNCHANGED <<links, cand>>

RegCreateEntry ==
  \E p \in Procs, caller \in AgentIds, agent \in ConcProfiles : reg_create_entry(p, caller, agent)

(* create_link(my_pub_key, agent_hash, LinkTypes::AgentToProfile, ())?; *)
reg_link_profile(p) ==
  /\ calls[p].pc = "link_profile"
  /\ links' = create_link(links, AgentPubKey(calls[p].caller), calls[p].agent_hash,
                          "AgentToProfile", <<>>)
  /\ calls' = [calls EXCEPT ![p].pc = "ensure"]
  /\ ret' = Step(p)
  /\ UNCHANGED <<records, cand>>

RegLinkProfile == \E p \in Procs : reg_link_profile(p)

(* all_agents_path.ensure()?; *)
reg_ensure(p) ==
  /\ calls[p].pc = "ensure"
  /\ links' = path_ensure(links, all_agents_path)
  /\ calls' = [calls EXCEPT ![p].pc = "link_anchor"]
  /\ ret' = Step(p)
  /\ UNCHANGED <<records, cand>>

RegEnsure == \E p \in Procs : reg_ensure(p)

(* variant: the discovery link targets the newest record of the store
   instead of the invocation's own agent_hash *)
reg_link_anchor_latest(p) ==
  /\ calls[p].pc = "link_anchor"
  /\ links' = create_link(links, path_entry_hash(all_agents_path),
                          ActionHash(Len(records)), "AllAgents", <<>>)
  /\ calls' = [calls EXCEPT ![p].pc = "returned"]
  /\ ret' = [op |-> "register_agent", caller |-> calls[p].caller,
             input |-> calls[p].agent, res |-> Ok(calls[p].agent_hash)]
  /\ UNCHANGED <<records, cand>>

(* create_link(path_entry_hash, agent_hash, LinkTypes::AllAgents, ())?; Ok(agent_hash) *)
reg_link_anchor(p) ==
  /\ calls[p].pc = "link_anchor"
  /\ links' = create_link(links, path_entry_hash(all_agents_path),
                          calls[p].agent_hash, "AllAgents", <<>>)
  /\ calls' = [calls EXCEPT ![p].pc = "returned"]
  /\ ret' = [op |-> "register_agent", caller |-> calls[p].caller,
             input |-> calls[p].agent, res |-> Ok(calls[p].agent_hash)]
  /\ UNCHANGED <<records, cand>>

RegLinkAnchor == \E p \in Procs : reg_link_anchor(p)

(* browse_agents called with the empty query while registrations are in flight *)
BrowseAll ==
  \E o \in Enumerations(Len(get_links(links, path_entry_hash(all_agents_path), "AllAgents"))) :
    browse_agents(<<>>, o)

(* the store holds one Job of identity 1 when the registrations start *)
InitConc ==
  \E order \in KeyOrders(DOMAIN JobAudit.service_requirements) :
    LET s1 == job_created([records |-> <<>>, links |-> <<>>], 1, JobAudit, 1, order)
    IN  /\ records = s1.records
        /\ links = s1.links
        /\ ret = [op |-> "init"]
        /\ cand = NoCand
        /\ calls = NoCalls

NextConc ==
  \/ RegCreateEntry
  \/ RegLinkProfile
  \/ RegEnsure
  \/ RegLinkAnchor
  \/ BrowseAll
  \/ GetMyJobs
  \/ GetJob

SpecConc == InitConc /\ [][NextConc]_vars

Returned == {p \in Procs : calls[p].pc = "returned"}

ProfileLinks(a) == get_links(links, AgentPubKey(a), "AgentToProfile")

(* C11: under every interleaving of the steps of concurrent register_agent
   calls, no call with a valid profile fails, the record of every returned
   call still holds that call's profile under that call's identity, a
   browse_agents with the empty query lists the profile of every returned
   call exactly once, and browse_agents, get_my_jobs and get_job return Ok
   whatever the identity->profile links are, several links of one identity
   included. *)
C11_ConcurrentRegistrations ==
  /\ \A p \in Procs :
       (calls[p].pc = "failed") => validate_acp_agent(calls[p].agent) # Valid
  /\ \A p \in Returned :
       /\ Resolves(calls[p].agent_hash)
       /\ records[calls[p].agent_hash.action]
            = [author |-> calls[p].caller, entry |-> calls[p].agent]
       /\ \A q \in Returned : q # p => calls[q].agent_hash # calls[p].agent_hash
  /\ (ret.op = "browse_agents" /\ ret.input = <<>>) =>
       /\ ret.res.ok
       /\ \A p \in Returned :
            /\ Cardinality({i \in 1..Len(Summaries) :
                              Summaries[i].agent_hash = calls[p].agent_hash}) = 1
            /\ \E i \in 1..Len(Summaries) :
                 /\ Summaries[i].agent_hash = calls[p].agent_hash
                 /\ [f \in AcpAgentFields |-> Summaries[i][f]] = calls[p].agent
  /\ (ret.op \in {"browse_agents", "get_my_jobs", "get_job"}) => ret.res.ok

(* two identities registered concurrently, the second to create its entry was
   the first to create its discovery link, and a browse_agents lists both *)
C11_Witness ==
  /\ Returned = Procs
  /\ calls[1].caller # calls[2].caller
  /\ calls[1].agent # calls[2].agent
  /\ LET idxs == get_links(links, path_entry_hash(all_agents_path), "AllAgents")
     IN  /\ Len(idxs) = 2
         /\ links[idxs[1]].target.action > links[idxs[2]].target.action
  /\ ret.op = "browse_agents" /\ ret.input = <<>>
  /\ Len(Summaries) = 2

====
